---- MODULE Spec2Model ----
(***************************************************************************)
(* Record store of the Personalized Patient Education System (src/app.py). *)
(* Every user interaction reruns the script from the top: the session      *)
(* collections are reloaded from patient_education_data.json (load_data,   *)
(* line 285) and then the handler of the clicked button runs and, when it  *)
(* mutates a collection, rewrites the whole document (save_data).          *)
(* The knowledge assessments of a session (generate_knowledge_assessment,  *)
(* evaluate_responses) live in the session state only.                     *)
(***************************************************************************)
EXTENDS Integers, Sequences, FiniteSets, TLC

VARIABLES
  file,                 \* patient_education_data.json: absent, or its text as JSON tokens
  patient_records,      \* st.session_state.patient_records, per session
  generated_materials,  \* st.session_state.generated_materials, per session
  chat_history,         \* st.session_state.chat_history, per session
  patient_assessments,  \* st.session_state.patient_assessments, per session
  pc,                   \* per session: the widget interaction the running script is serving
  out,                  \* what the last script run rendered / raised, and in which session
  issued                \* number of uuid4() values drawn so far

vars == <<file, patient_records, generated_materials, chat_history, patient_assessments,
          pc, out, issued>>

----------------------------------------------------------------------------
(* Bounds *)

MaxIds == 3           \* uuid4() draws (patients + materials) explored
MaxMsgs == 4          \* messages kept per chat history before Send is no longer explored
MaxIdsMulti == 3      \* uuid4() draws explored with two sessions
MaxMsgsMulti == 2     \* messages per chat history explored with two sessions
MaxQuestions == 2     \* questions of a quiz handed to the scorer
MaxIdsTwo == 3        \* uuid4() draws explored with two patient names
MaxMsgsTwo == 2       \* messages per chat history explored with two patient names
MaxIdsQuiz == 2       \* uuid4() draws explored together with the Knowledge Assessment page
MaxMsgsQuiz == 2      \* messages per chat history explored together with that page

----------------------------------------------------------------------------
(* Inputs typed into the widgets and outcomes of the environment *)

Sessions == {"A", "B"}      \* browser sessions sharing the one document

Names == {"", "Ann"}
NamesTwo == {"", "Ann", "Bob"}
Conditions == {"", "flu"}
Questions == {"", "hello"}
GeneratedTexts == {"text"}
RemoteFail == "<exception>"
RemoteOutcomes == GeneratedTexts \cup {RemoteFail}
WriteOk == "full"
WriteFaults == {"half", "nothing"}     \* how much of the text a failing write leaves

DefaultAge == 30
Now == "2024-01-01 10:00:00"

ChatApology == "I'm sorry, I'm having trouble connecting to my knowledge base. Please try again later or contact your healthcare provider for assistance."

----------------------------------------------------------------------------
(* JSON text, as the token sequence json.dump writes and json.load reads *)

P(c) == [k |-> "p", v |-> c]
S(s) == [k |-> "s", v |-> s]
N(n) == [k |-> "n", v |-> n]
IsP(tok, c) == tok.k = "p" /\ tok.v = c

RECURSIVE JoinComma(_)
JoinComma(parts) ==
  IF Len(parts) = 0 THEN <<>>
  ELSE IF Len(parts) = 1 THEN parts[1]
  ELSE parts[1] \o <<P(",")>> \o JoinComma(Tail(parts))

dumpList(parts) == <<P("[")>> \o JoinComma(parts) \o <<P("]")>>
dumpDict(keys, parts) ==
  <<P("{")>> \o JoinComma([i \in 1..Len(keys) |-> <<S(keys[i]), P(":")>> \o parts[i]]) \o <<P("}")>>

dumpPatient_NoCondition(p) ==
  dumpDict(<<"id", "name", "age", "gender", "education_level", "language", "condition",
             "treatment", "medications", "learning_style", "special_needs", "date_added">>,
           << <<S(p.id)>>, <<S(p.name)>>, <<N(p.age)>>, <<S(p.gender)>>, <<S(p.education_level)>>,
              <<S(p.language)>>, <<S("")>>, <<S(p.treatment)>>, <<S(p.medications)>>,
              <<S(p.learning_style)>>, <<S(p.special_needs)>>, <<S(p.date_added)>> >>)

dumpPatient(p) ==
  dumpDict(<<"id", "name", "age", "gender", "education_level", "language", "condition",
             "treatment", "medications", "learning_style", "special_needs", "date_added">>,
           << <<S(p.id)>>, <<S(p.name)>>, <<N(p.age)>>, <<S(p.gender)>>, <<S(p.education_level)>>,
              <<S(p.language)>>, <<S(p.condition)>>, <<S(p.treatment)>>, <<S(p.medications)>>,
              <<S(p.learning_style)>>, <<S(p.special_needs)>>, <<S(p.date_added)>> >>)

dumpMaterial(m) ==
  dumpDict(<<"id", "patient_id", "patient_name", "condition", "content", "timestamp">>,
           << <<S(m.id)>>, <<S(m.patient_id)>>, <<S(m.patient_name)>>, <<S(m.condition)>>,
              <<S(m.content)>>, <<S(m.timestamp)>> >>)

dumpMessage_AsUser(m) ==
  dumpDict(<<"role", "content", "timestamp">>,
           << <<S("user")>>, <<S(m.content)>>, <<S(m.timestamp)>> >>)

dumpMessage(m) ==
  dumpDict(<<"role", "content", "timestamp">>,
           << <<S(m.role)>>, <<S(m.content)>>, <<S(m.timestamp)>> >>)

uid(n) == "u" \o ToString(n)

\* str(uuid.uuid4()) when n values have been drawn before: a value not drawn before
uuid4_Repeat(n) == uid(1)
uuid4(n) == uid(n + 1)

\* the keys of a chat_history dict, in the order their ids were drawn
KeyOrder(d) == SelectSeq([n \in 1..(MaxIds + MaxIdsMulti) |-> uid(n)], LAMBDA key : key \in DOMAIN d)

dumpChat(d) ==
  LET keys == KeyOrder(d)
  IN dumpDict(keys, [i \in 1..Len(keys) |->
                       dumpList([j \in 1..Len(d[keys[i]]) |-> dumpMessage(d[keys[i]][j])])])

json_dump_NoChat(patients, materials, chat) ==
  dumpDict(<<"patients", "materials">>,
           << dumpList([i \in 1..Len(patients) |-> dumpPatient(patients[i])]),
              dumpList([i \in 1..Len(materials) |-> dumpMaterial(materials[i])]) >>)

json_dump_WithAssessments(patients, materials, chat) ==
  dumpDict(<<"patients", "materials", "chat_history", "patient_assessments">>,
           << dumpList([i \in 1..Len(patients) |-> dumpPatient(patients[i])]),
              dumpList([i \in 1..Len(materials) |-> dumpMaterial(materials[i])]),
              dumpChat(chat), dumpDict(<<>>, <<>>) >>)

json_dump(patients, materials, chat) ==
  dumpDict(<<"patients", "materials", "chat_history">>,
           << dumpList([i \in 1..Len(patients) |-> dumpPatient(patients[i])]),
              dumpList([i \in 1..Len(materials) |-> dumpMaterial(materials[i])]),
              dumpChat(chat) >>)

ParseFail == [ok |-> FALSE]

RECURSIVE ParseValue(_, _), ParseElements(_, _, _), ParseMembers(_, _, _)
ParseValue(t, i) ==
  IF i > Len(t) THEN ParseFail
  ELSE IF t[i].k \in {"s", "n"} THEN [ok |-> TRUE, val |-> t[i].v, next |-> i + 1]
  ELSE IF IsP(t[i], "[") THEN
    IF i + 1 <= Len(t) /\ IsP(t[i + 1], "]")
    THEN [ok |-> TRUE, val |-> <<>>, next |-> i + 2]
    ELSE ParseElements(t, i + 1, <<>>)
  ELSE IF IsP(t[i], "{") THEN
    IF i + 1 <= Len(t) /\ IsP(t[i + 1], "}")
    THEN [ok |-> TRUE, val |-> <<>>, next |-> i + 2]
    ELSE ParseMembers(t, i + 1, <<>>)
  ELSE ParseFail

ParseElements(t, i, acc) ==
  LET r == ParseValue(t, i)
  IN IF ~r.ok \/ r.next > Len(t) THEN ParseFail
     ELSE IF IsP(t[r.next], ",") THEN ParseElements(t, r.next + 1, Append(acc, r.val))
     ELSE IF IsP(t[r.next], "]") THEN [ok |-> TRUE, val |-> Append(acc, r.val), next |-> r.next + 1]
     ELSE ParseFail

ParseMembers(t, i, acc) ==
  IF i + 1 > Len(t) \/ t[i].k # "s" \/ ~IsP(t[i + 1], ":") THEN ParseFail
  ELSE LET r == ParseValue(t, i + 2)
       IN IF ~r.ok \/ r.next > Len(t) THEN ParseFail
          ELSE IF IsP(t[r.next], ",") THEN ParseMembers(t, r.next + 1, (t[i].v :> r.val) @@ acc)
          ELSE IF IsP(t[r.next], "}") THEN [ok |-> TRUE, val |-> (t[i].v :> r.val) @@ acc, next |-> r.next + 1]
          ELSE ParseFail

\* json.load: the parsed value, or JSONDecodeError (ok = FALSE)
json_load(t) ==
  LET r == ParseValue(t, 1)
  IN IF r.ok /\ r.next = Len(t) + 1 THEN r ELSE ParseFail

dict_get(d, key, default) == IF key \in DOMAIN d THEN d[key] ELSE default

----------------------------------------------------------------------------
(* The script top: session-state initialisation and load_data *)

Idle == [btn |-> "", key |-> ""]
Rendered(s, op) == [session |-> s, op |-> op, success |-> FALSE, error |-> FALSE, exception |-> ""]

\* lines 24-32: a new session starts with empty collections
EmptyFile == [exists |-> FALSE, text |-> <<>>]

\* load_data (lines 272-282): FileNotFoundError gives three empty collections,
\* any other exception (JSONDecodeError) propagates to the script run
load_data_CatchAll(f, patients, materials, chat) ==
  IF ~f.exists \/ ~json_load(f.text).ok
  THEN [raised |-> FALSE, patients |-> <<>>, materials |-> <<>>, chat |-> <<>>]
  ELSE LET data == json_load(f.text)
       IN [raised |-> FALSE,
           patients |-> dict_get(data.val, "patients", <<>>),
           materials |-> dict_get(data.val, "materials", <<>>),
           chat |-> dict_get(data.val, "chat_history", <<>>)]

load_data_MissingRaises(f, patients, materials, chat) ==
  LET data == json_load(f.text)
  IN IF ~f.exists \/ ~data.ok
     THEN [raised |-> TRUE, patients |-> patients, materials |-> materials, chat |-> chat]
     ELSE [raised |-> FALSE,
           patients |-> dict_get(data.val, "patients", <<>>),
           materials |-> dict_get(data.val, "materials", <<>>),
           chat |-> dict_get(data.val, "chat_history", <<>>)]

load_data(f, patients, materials, chat) ==
  IF ~f.exists
  THEN [raised |-> FALSE, patients |-> <<>>, materials |-> <<>>, chat |-> <<>>]
  ELSE LET data == json_load(f.text)
       IN IF ~data.ok
          THEN [raised |-> TRUE, patients |-> patients, materials |-> materials, chat |-> chat]
          ELSE [raised |-> FALSE,
                patients |-> dict_get(data.val, "patients", <<>>),
                materials |-> dict_get(data.val, "materials", <<>>),
                chat |-> dict_get(data.val, "chat_history", <<>>)]

\* save_data (lines 263-270): open(..., "w") truncates the document, json.dump
\* writes the three collections; a write that fails (and raises) leaves a prefix
\* of the text: none of it, or its first half
save_data_NoMaterials(patients, materials, chat, w) ==
  [exists |-> TRUE, text |-> json_dump(patients, <<>>, chat)]

save_data(patients, materials, chat, w) ==
  LET text == json_dump(patients, materials, chat)
  IN IF w = WriteOk
     THEN [exists |-> TRUE, text |-> text]
     ELSE IF w = "half"
     THEN [exists |-> TRUE, text |-> SubSeq(text, 1, Len(text) \div 2)]
     ELSE [exists |-> TRUE, text |-> <<>>]

\* patient_names of the selectbox (lines 828, 880, 1209)
patient_names(patients) ==
  [i \in 1..Len(patients) |-> patients[i].name \o " - " \o patients[i].condition]

Range(seq) == {seq[i] : i \in 1..Len(seq)}

\* list.index: the first position holding the value
list_index(seq, x) == CHOOSE i \in 1..Len(seq) : seq[i] = x /\ \A j \in 1..(i - 1) : seq[j] # x

\* list.remove: drops the first element equal to x
list_remove_Last(seq, x) == SubSeq(seq, 1, Len(seq) - 1)

list_remove(seq, x) ==
  LET i == list_index(seq, x)
  IN SubSeq(seq, 1, i - 1) \o SubSeq(seq, i + 1, Len(seq))

\* list.append (lines 213, 810): the new element goes to the end
list_append_Front(seq, x) == <<x>> \o seq

list_append(seq, x) == Append(seq, x)

\* the widget interactions the page rendered by the last run offers
Clicks(s) ==
  {[btn |-> "Save Patient Information", key |-> ""]}
  \cup (IF patient_records[s] # <<>>
        THEN {[btn |-> b, key |-> ""] : b \in {"Generate Personalized Education Material",
                                               "Select Patient", "Send", "Clear Chat History"}}
        ELSE {})
  \cup {[btn |-> "Delete", key |-> generated_materials[s][i].id] : i \in 1..Len(generated_materials[s])}

\* the widget interactions of the Knowledge Assessment page (lines 1209, 1237, 1263, 1271)
QuizClicks(s) ==
  IF patient_records[s] = <<>> THEN {}
  ELSE {[btn |-> b, key |-> ""] : b \in {"Generate Knowledge Assessment", "Knowledge Assessment"}}
       \cup (IF \E p \in DOMAIN patient_assessments[s] :
                   "questions" \in DOMAIN patient_assessments[s][p].assessment
             THEN {[btn |-> "Submit Assessment", key |-> ""]}
             ELSE {})

\* A widget interaction reruns the script: lines 24-32 and load_data() at line 285
Click(s, click) ==
  /\ UNCHANGED patient_assessments
  /\ pc[s] = Idle
  /\ click \in Clicks(s) \cup QuizClicks(s)
  /\ LET r == load_data(file, patient_records[s], generated_materials[s], chat_history[s])
     IN /\ patient_records' = [patient_records EXCEPT ![s] = r.patients]
        /\ generated_materials' = [generated_materials EXCEPT ![s] = r.materials]
        /\ chat_history' = [chat_history EXCEPT ![s] = r.chat]
        /\ pc' = [pc EXCEPT ![s] = IF r.raised THEN Idle ELSE click]
        /\ out' = (IF r.raised
                                     THEN [Rendered(s, "load_data") EXCEPT !.exception = "JSONDecodeError"]
                                     ELSE Rendered(s, "load_data"))
  /\ UNCHANGED <<file, issued>>

----------------------------------------------------------------------------
(* Add Patient page, lines 769-818 *)

NewPatient(id, name, condition) ==
  [id |-> id, name |-> name, age |-> DefaultAge, gender |-> "Male",
   education_level |-> "Elementary", language |-> "English", condition |-> condition,
   treatment |-> "", medications |-> "", learning_style |-> "Visual",
   special_needs |-> "", date_added |-> Now]

\* line 792: if name and condition
valid_intake_NameOnly(name, condition) == name # ""
valid_intake(name, condition) == name # "" /\ condition # ""

AddPatient(s, name, condition, w, lim) ==
  /\ UNCHANGED patient_assessments
  /\ pc[s].btn = "Save Patient Information"
  /\ pc' = [pc EXCEPT ![s] = Idle]
  /\ IF valid_intake(name, condition)
     THEN /\ issued < lim.ids
          /\ LET patient_id == uuid4(issued)
                 patients == list_append(patient_records[s], NewPatient(patient_id, name, condition))
                 chat == (patient_id :> <<>>) @@ chat_history[s]
             IN /\ patient_records' = [patient_records EXCEPT ![s] = patients]
                /\ chat_history' = [chat_history EXCEPT ![s] = chat]
                /\ file' = save_data(patients, generated_materials[s], chat, w)
          /\ issued' = issued + 1
          /\ out' = (IF w = WriteOk
                                       THEN [Rendered(s, "Add Patient") EXCEPT !.success = TRUE]
                                       ELSE [Rendered(s, "Add Patient") EXCEPT !.exception = "OSError"])
          /\ UNCHANGED generated_materials
     ELSE /\ out' = ([Rendered(s, "Add Patient") EXCEPT !.error = TRUE])
          /\ UNCHANGED <<file, patient_records, generated_materials, chat_history, issued>>

----------------------------------------------------------------------------
(* Generate Materials page, lines 821-870, and generate_patient_education *)

\* lines 829-833, 881-886: the selectbox label resolves to the first profile carrying it
selected_patient(patients, label) == patients[list_index(patient_names(patients), label)]

\* the material dict of lines 204-211
NewMaterial_NoSnapshot(id, patient, content) ==
  [id |-> id, patient_id |-> patient.id, patient_name |-> "",
   condition |-> "", content |-> content, timestamp |-> Now]

NewMaterial_ByName(id, patient, content) ==
  [id |-> id, patient_id |-> patient.name, patient_name |-> patient.name,
   condition |-> patient.condition, content |-> content, timestamp |-> Now]

NewMaterial(id, patient, content) ==
  [id |-> id, patient_id |-> patient.id, patient_name |-> patient.name,
   condition |-> patient.condition, content |-> content, timestamp |-> Now]

GenerateMaterial(s, label, resp, w, lim) ==
  /\ UNCHANGED patient_assessments
  /\ pc[s].btn = "Generate Personalized Education Material"
  /\ pc' = [pc EXCEPT ![s] = Idle]
  /\ UNCHANGED <<patient_records, chat_history>>
  /\ IF patient_records[s] = <<>>
     THEN /\ label = ""
          /\ out' = (Rendered(s, "Generate Materials"))
          /\ UNCHANGED <<file, generated_materials, issued>>
     ELSE /\ label \in Range(patient_names(patient_records[s]))
          /\ IF resp = RemoteFail
             THEN /\ out' = ([Rendered(s, "Generate Materials") EXCEPT
                                                  !.success = TRUE, !.error = TRUE])
                  /\ UNCHANGED <<file, generated_materials, issued>>
             ELSE /\ issued < lim.ids
                  /\ LET patient == selected_patient(patient_records[s], label)
                         materials == list_append(generated_materials[s],
                                                  NewMaterial(uuid4(issued), patient, resp))
                     IN /\ generated_materials' = [generated_materials EXCEPT ![s] = materials]
                        /\ file' = save_data(patient_records[s], materials, chat_history[s], w)
                  /\ issued' = issued + 1
                  /\ out' = ([Rendered(s, "Generate Materials") EXCEPT
                                                  !.success = TRUE, !.error = (w # WriteOk)])

----------------------------------------------------------------------------
(* Patient Chat page, lines 873-982, and chat_with_patient *)

\* lines 906-908: the history of the selected patient is created on first access
lazy_history_Reset(chat, patient_id) == (patient_id :> <<>>) @@ chat

lazy_history(chat, patient_id) ==
  IF patient_id \in DOMAIN chat THEN chat ELSE (patient_id :> <<>>) @@ chat

Message_AlwaysUser(role, content) == [role |-> "user", content |-> content, timestamp |-> Now]

Message(role, content) == [role |-> role, content |-> content, timestamp |-> Now]

\* chat_with_patient (lines 223-260): the reply, or the apology text when the call raises
chat_with_patient(resp) == IF resp = RemoteFail THEN ChatApology ELSE resp

ViewChat(s, label) ==
  /\ UNCHANGED patient_assessments
  /\ pc[s].btn = "Select Patient"
  /\ pc' = [pc EXCEPT ![s] = Idle]
  /\ out' = (Rendered(s, "Patient Chat"))
  /\ UNCHANGED <<file, patient_records, generated_materials, issued>>
  /\ IF patient_records[s] = <<>>
     THEN label = "" /\ UNCHANGED chat_history
     ELSE /\ label \in Range(patient_names(patient_records[s]))
          /\ chat_history' = [chat_history EXCEPT ![s] =
               lazy_history(@, selected_patient(patient_records[s], label).id)]

Send(s, label, user_question, resp, w, lim) ==
  /\ UNCHANGED patient_assessments
  /\ pc[s].btn = "Send"
  /\ UNCHANGED <<patient_records, generated_materials, issued>>
  /\ IF patient_records[s] = <<>>
     THEN /\ label = ""
          /\ pc' = [pc EXCEPT ![s] = Idle]
          /\ out' = (Rendered(s, "Patient Chat"))
          /\ UNCHANGED <<file, chat_history>>
     ELSE /\ label \in Range(patient_names(patient_records[s]))
          /\ LET patient_id == selected_patient(patient_records[s], label).id
                 chat0 == lazy_history(chat_history[s], patient_id)
             IN IF user_question = ""
                THEN /\ chat_history' = [chat_history EXCEPT ![s] = chat0]
                     /\ pc' = [pc EXCEPT ![s] = Idle]
                     /\ out' = (Rendered(s, "Patient Chat"))
                     /\ UNCHANGED file
                ELSE /\ Len(chat0[patient_id]) + 2 <= lim.msgs
                     /\ LET chat1 == [chat0 EXCEPT ![patient_id] =
                                        Append(Append(@, Message("user", user_question)),
                                               Message("assistant", chat_with_patient(resp)))]
                        IN /\ chat_history' = [chat_history EXCEPT ![s] = chat1]
                           /\ file' = save_data(patient_records[s], generated_materials[s], chat1, w)
                     /\ pc' = [pc EXCEPT ![s] = IF w = WriteOk
                                                 THEN [btn |-> "st.rerun", key |-> label]
                                                 ELSE Idle]
                     /\ out' = ([Rendered(s, "Send") EXCEPT
                                  !.error = (resp = RemoteFail),
                                  !.exception = IF w = WriteOk THEN "" ELSE "OSError"])

\* line 979: st.session_state.chat_history[patient_id] = []
clear_history_All(chat, patient_id) == [p \in DOMAIN chat \cup {patient_id} |-> <<>>]

clear_history(chat, patient_id) == (patient_id :> <<>>) @@ chat

ClearChat(s, label, w) ==
  /\ UNCHANGED patient_assessments
  /\ pc[s].btn = "Clear Chat History"
  /\ UNCHANGED <<patient_records, generated_materials, issued>>
  /\ IF patient_records[s] = <<>>
     THEN /\ label = ""
          /\ pc' = [pc EXCEPT ![s] = Idle]
          /\ out' = (Rendered(s, "Patient Chat"))
          /\ UNCHANGED <<file, chat_history>>
     ELSE /\ label \in Range(patient_names(patient_records[s]))
          /\ LET patient_id == selected_patient(patient_records[s], label).id
                 chat1 == clear_history(chat_history[s], patient_id)
             IN /\ chat_history' = [chat_history EXCEPT ![s] = chat1]
                /\ file' = save_data(patient_records[s], generated_materials[s], chat1, w)
          /\ pc' = [pc EXCEPT ![s] = IF w = WriteOk
                                      THEN [btn |-> "st.rerun", key |-> label]
                                      ELSE Idle]
          /\ out' = (IF w = WriteOk
                                       THEN [Rendered(s, "Clear Chat History") EXCEPT !.success = TRUE]
                                       ELSE [Rendered(s, "Clear Chat History") EXCEPT !.exception = "OSError"])

----------------------------------------------------------------------------
(* View Materials page, lines 985-1033 *)

\* the Delete button with key delete_<id> exists only while a material has that id
Delete(s, w) ==
  /\ UNCHANGED patient_assessments
  /\ pc[s].btn = "Delete"
  /\ UNCHANGED <<patient_records, chat_history, issued>>
  /\ LET hits == {i \in 1..Len(generated_materials[s]) : generated_materials[s][i].id = pc[s].key}
     IN IF hits = {}
        THEN /\ w = WriteOk
             /\ pc' = [pc EXCEPT ![s] = Idle]
             /\ out' = (Rendered(s, "View Materials"))
             /\ UNCHANGED <<file, generated_materials>>
        ELSE LET material == generated_materials[s][CHOOSE i \in hits : \A j \in hits : i <= j]
                 materials == list_remove(generated_materials[s], material)
             IN /\ generated_materials' = [generated_materials EXCEPT ![s] = materials]
                /\ file' = save_data(patient_records[s], materials, chat_history[s], w)
                /\ pc' = [pc EXCEPT ![s] = IF w = WriteOk
                                            THEN [btn |-> "st.rerun", key |-> ""]
                                            ELSE Idle]
                /\ out' = (IF w = WriteOk
                                             THEN [Rendered(s, "Delete") EXCEPT !.success = TRUE]
                                             ELSE [Rendered(s, "Delete") EXCEPT !.exception = "OSError"])

----------------------------------------------------------------------------
(* st.rerun() (lines 975, 982, 1033) and a new session *)

\* the script runs again from the top on the same page: load_data, and on the
\* Patient Chat page the lazy creation for the patient the selectbox shows
StRerun(s, label) ==
  /\ UNCHANGED patient_assessments
  /\ pc[s].btn = "st.rerun"
  /\ pc' = [pc EXCEPT ![s] = Idle]
  /\ UNCHANGED <<file, issued>>
  /\ LET r == load_data(file, patient_records[s], generated_materials[s], chat_history[s])
         names == Range(patient_names(r.patients))
     IN /\ patient_records' = [patient_records EXCEPT ![s] = r.patients]
        /\ generated_materials' = [generated_materials EXCEPT ![s] = r.materials]
        /\ out' = (IF r.raised
                                     THEN [Rendered(s, "load_data") EXCEPT !.exception = "JSONDecodeError"]
                                     ELSE Rendered(s, "st.rerun"))
        /\ IF r.raised \/ pc[s].key = "" \/ names = {}
           THEN label = "" /\ chat_history' = [chat_history EXCEPT ![s] = r.chat]
           ELSE /\ label \in names
                /\ pc[s].key \in names => label = pc[s].key
                /\ chat_history' = [chat_history EXCEPT ![s] =
                     lazy_history(r.chat, selected_patient(r.patients, label).id)]

\* a new browser session or a restarted process: lines 24-32 and the first load_data()
NewSession(s) ==
  /\ patient_assessments' = [patient_assessments EXCEPT ![s] = <<>>]
  /\ LET r == load_data(file, <<>>, <<>>, <<>>)
     IN /\ patient_records' = [patient_records EXCEPT ![s] = r.patients]
        /\ generated_materials' = [generated_materials EXCEPT ![s] = r.materials]
        /\ chat_history' = [chat_history EXCEPT ![s] = r.chat]
        /\ out' = (IF r.raised
                                     THEN [Rendered(s, "load_data") EXCEPT !.exception = "JSONDecodeError"]
                                     ELSE Rendered(s, "load_data"))
  /\ pc' = [pc EXCEPT ![s] = Idle]
  /\ UNCHANGED <<file, issued>>

----------------------------------------------------------------------------
(* Knowledge Assessment: evaluate_responses, lines 98-123 *)

None == <<>>          \* Python's None

\* the two f-string prefixes of lines 111 and 114 (a check mark, a cross mark)
CorrectMark == "[U+2705] Correct! "
IncorrectMark == "[U+274C] Incorrect. The correct answer is: "

\* f"question_{i}" (lines 107, 1263), i counted from 0
question_key_OneBased(i) == "question_" \o ToString(i + 1)

question_key(i) == "question_" \o ToString(i)

\* the loop of lines 106-121, from question i on
RECURSIVE evaluate_loop(_, _, _, _)
evaluate_loop(questions, user_responses, i, results) ==
  IF i >= Len(questions) THEN results
  ELSE LET question == questions[i + 1]
           key == question_key(i)
           answered == key \in DOMAIN user_responses
           user_answer == IF answered THEN user_responses[key] ELSE None
           correct == answered /\ user_responses[key] = question.correct_answer
           feedback == IF correct
                       THEN CorrectMark \o question.explanation
                       ELSE IncorrectMark \o question.correct_answer \o ". " \o question.explanation
       IN evaluate_loop(questions, user_responses, i + 1,
            [results EXCEPT
               !.correct_answers = IF correct THEN @ + 1 ELSE @,
               !.incorrect_answers = IF correct THEN @ ELSE @ + 1,
               !.feedback = Append(@, [question |-> question.text,
                                       user_answer |-> user_answer,
                                       correct_answer |-> question.correct_answer,
                                       feedback |-> feedback])])

evaluate_responses_NoTotal(assessment, user_responses) ==
  evaluate_loop(assessment.questions, user_responses, 0,
                [total_questions |-> 0, correct_answers |-> 0,
                 incorrect_answers |-> 0, feedback |-> <<>>])

evaluate_responses(assessment, user_responses) ==
  evaluate_loop(assessment.questions, user_responses, 0,
                [total_questions |-> Len(assessment.questions), correct_answers |-> 0,
                 incorrect_answers |-> 0, feedback |-> <<>>])

\* a stored assessment entry as line 1243 builds it
AssessmentEntry(assessment, user_responses, results) ==
  [assessment |-> assessment, user_responses |-> user_responses, results |-> results]

\* evaluate_responses applied to a stored assessment and its stored answers
Score(s) ==
  /\ \E p \in DOMAIN patient_assessments[s] :
       LET e == patient_assessments[s][p]
       IN /\ e.results = None
          /\ patient_assessments' = [patient_assessments EXCEPT ![s][p].results =
               evaluate_responses(e.assessment, e.user_responses)]
  /\ out' = Rendered(s, "evaluate_responses")
  /\ UNCHANGED <<file, patient_records, generated_materials, chat_history, pc, issued>>

----------------------------------------------------------------------------
(* generate_knowledge_assessment, lines 35-94 *)

\* response.text: JSON tokens mixed with text that is no JSON token
\* (white space, a code-fence marker, the word json, prose)
W(w) == [k |-> "w", v |-> w]
Fence == W("<three backticks>")
IsSpace(tok) == tok.k = "w" /\ tok.v \in {" ", "\n"}

\* str.strip(): white space at both ends is dropped
str_strip(text) ==
  LET kept == {i \in 1..Len(text) : ~IsSpace(text[i])}
  IN IF kept = {} THEN <<>>
     ELSE SubSeq(text, CHOOSE i \in kept : \A j \in kept : i <= j,
                       CHOOSE i \in kept : \A j \in kept : j <= i)

\* what str.replace("json", "") leaves of the string literals of the responses
without_json(s) == IF s = "Is json a format?" THEN "Is  a format?" ELSE s

\* str.replace(old, ""): every occurrence of old is dropped, inside string
\* literals too; with old = "" there is nothing to drop
str_remove(text, old) ==
  IF old = "" THEN text
  ELSE LET kept == SelectSeq(text, LAMBDA tok : ~(tok.k = "w" /\ tok.v = old))
       IN [i \in 1..Len(kept) |->
             IF kept[i].k = "s" /\ old = "json" THEN S(without_json(kept[i].v)) ELSE kept[i]]

\* line 81, as written: .strip().replace("json", "").replace("", "").strip()
clean_response(text) ==
  str_strip(str_remove(str_remove(str_strip(text), "json"), ""))

\* json.loads: white space between tokens is skipped, any other text is an error
json_loads(text) ==
  IF \E i \in 1..Len(text) : text[i].k = "w" /\ ~IsSpace(text[i])
  THEN ParseFail
  ELSE json_load(SelectSeq(text, LAMBDA tok : tok.k # "w"))

\* the outcome of model.generate_content: it raises, or response.text
Raised == [raised |-> TRUE, text |-> <<>>]
Response(text) == [raised |-> FALSE, text |-> text]

generate_knowledge_assessment(resp) ==
  IF resp.raised
  THEN [error |-> "Failed to generate assessment"]
  ELSE LET cleaned_response == clean_response(resp.text)
           assessment == json_loads(cleaned_response)
       IN IF assessment.ok
          THEN assessment.val
          ELSE [error |-> "Failed to parse assessment", raw_response |-> cleaned_response]

----------------------------------------------------------------------------
(* Knowledge Assessment page, lines 1202-1289 *)

\* lines 1261-1268: each st.radio returns the option selected for its question,
\* and the loop stores it under the question's key
RadioChoices(assessment) ==
  LET questions == assessment.questions
  IN {picks \in [1..Len(questions) -> UNION {Range(questions[i].options) : i \in 1..Len(questions)}] :
        \A i \in 1..Len(questions) : picks[i] \in Range(questions[i].options)}

render_questions(entry, picks) ==
  [entry EXCEPT !.user_responses =
     [key \in DOMAIN @ \cup {question_key(i - 1) : i \in 1..Len(picks)} |->
        IF \E i \in 1..Len(picks) : key = question_key(i - 1)
        THEN picks[CHOOSE i \in 1..Len(picks) : key = question_key(i - 1)]
        ELSE @[key]]]

\* line 1261: assessment["questions"] raises KeyError when the stored value has
\* no such key, and the script run ends there
display_raises(assessments, patient_id) ==
  /\ patient_id \in DOMAIN assessments
  /\ "questions" \notin DOMAIN assessments[patient_id].assessment

Displayed(s, op, assessments, patient_id) ==
  [Rendered(s, op) EXCEPT
     !.exception = IF display_raises(assessments, patient_id) THEN "KeyError" ELSE ""]

\* lines 1252-1268 for the selected patient: nothing without a stored entry
Rendering(assessments, patient_id) ==
  IF patient_id \in DOMAIN assessments /\ ~display_raises(assessments, patient_id)
  THEN {[assessments EXCEPT ![patient_id] = render_questions(@, picks)] :
          picks \in RadioChoices(assessments[patient_id].assessment)}
  ELSE {assessments}

\* the page is shown, or a radio button of it is changed
ViewAssessment(s, label) ==
  /\ pc[s].btn = "Knowledge Assessment"
  /\ pc' = [pc EXCEPT ![s] = Idle]
  /\ UNCHANGED <<file, patient_records, generated_materials, chat_history, issued>>
  /\ IF patient_records[s] = <<>>
     THEN label = "" /\ out' = Rendered(s, "Knowledge Assessment") /\ UNCHANGED patient_assessments
     ELSE /\ label \in Range(patient_names(patient_records[s]))
          /\ out' = Displayed(s, "Knowledge Assessment", patient_assessments[s],
                              selected_patient(patient_records[s], label).id)
          /\ \E shown \in Rendering(patient_assessments[s],
                                     selected_patient(patient_records[s], label).id) :
               patient_assessments' = [patient_assessments EXCEPT ![s] = shown]

\* lines 1236-1249, then the display of lines 1252-1268 in the same run
GenerateAssessment(s, label, resp, w) ==
  /\ pc[s].btn = "Generate Knowledge Assessment"
  /\ pc' = [pc EXCEPT ![s] = Idle]
  /\ UNCHANGED <<patient_records, generated_materials, chat_history, issued>>
  /\ IF patient_records[s] = <<>>
     THEN /\ label = ""
          /\ out' = Rendered(s, "Knowledge Assessment")
          /\ UNCHANGED <<file, patient_assessments>>
     ELSE /\ label \in Range(patient_names(patient_records[s]))
          /\ LET patient_id == selected_patient(patient_records[s], label).id
                 assessment == generate_knowledge_assessment(resp)
             IN IF "error" \in DOMAIN assessment
                THEN /\ out' = [Displayed(s, "Generate Knowledge Assessment",
                                           patient_assessments[s], patient_id)
                                   EXCEPT !.error = TRUE]
                     /\ \E shown \in Rendering(patient_assessments[s], patient_id) :
                          patient_assessments' = [patient_assessments EXCEPT ![s] = shown]
                     /\ UNCHANGED file
                ELSE LET stored == (patient_id :> AssessmentEntry(assessment, <<>>, None))
                                         @@ patient_assessments[s]
                     IN /\ file' = save_data(patient_records[s], generated_materials[s],
                                             chat_history[s], w)
                        /\ IF w = WriteOk
                           THEN /\ out' = [Displayed(s, "Generate Knowledge Assessment",
                                                     stored, patient_id)
                                             EXCEPT !.success = TRUE]
                                /\ \E shown \in Rendering(stored, patient_id) :
                                     patient_assessments' = [patient_assessments EXCEPT ![s] = shown]
                           ELSE /\ out' = [Rendered(s, "Generate Knowledge Assessment")
                                             EXCEPT !.exception = "OSError"]
                                /\ patient_assessments' = [patient_assessments EXCEPT ![s] = stored]

\* the display of lines 1252-1268, then lines 1271-1275
SubmitAssessment(s, label, w) ==
  /\ pc[s].btn = "Submit Assessment"
  /\ pc' = [pc EXCEPT ![s] = Idle]
  /\ UNCHANGED <<patient_records, generated_materials, chat_history, issued>>
  /\ IF patient_records[s] = <<>>
     THEN /\ label = ""
          /\ out' = Rendered(s, "Knowledge Assessment")
          /\ UNCHANGED <<file, patient_assessments>>
     ELSE /\ label \in Range(patient_names(patient_records[s]))
          /\ LET patient_id == selected_patient(patient_records[s], label).id
             IN IF \/ patient_id \notin DOMAIN patient_assessments[s]
                   \/ display_raises(patient_assessments[s], patient_id)
                THEN /\ out' = Displayed(s, "Knowledge Assessment",
                                         patient_assessments[s], patient_id)
                     /\ UNCHANGED <<file, patient_assessments>>
                ELSE /\ \E shown \in Rendering(patient_assessments[s], patient_id) :
                          patient_assessments' = [patient_assessments EXCEPT ![s] =
                            [shown EXCEPT ![patient_id].results =
                               evaluate_responses(shown[patient_id].assessment,
                                                  shown[patient_id].user_responses)]]
                     /\ file' = save_data(patient_records[s], generated_materials[s],
                                          chat_history[s], w)
                     /\ out' = IF w = WriteOk
                               THEN [Rendered(s, "Submit Assessment") EXCEPT !.success = TRUE]
                               ELSE [Rendered(s, "Submit Assessment") EXCEPT !.exception = "OSError"]

----------------------------------------------------------------------------
(* Specifications *)

Init ==
  /\ file = EmptyFile
  /\ patient_records = [s \in Sessions |-> <<>>]
  /\ generated_materials = [s \in Sessions |-> <<>>]
  /\ chat_history = [s \in Sessions |-> <<>>]
  /\ patient_assessments = [s \in Sessions |-> <<>>]
  /\ pc = [s \in Sessions |-> Idle]
  /\ out = Rendered("", "")
  /\ issued = 0

\* the part of the state space explored: uuid4() draws and chat lengths
Lim == [ids |-> MaxIds, msgs |-> MaxMsgs, names |-> Names]
LimMulti == [ids |-> MaxIdsMulti, msgs |-> MaxMsgsMulti, names |-> Names]
LimTwo == [ids |-> MaxIdsTwo, msgs |-> MaxMsgsTwo, names |-> NamesTwo]
LimQuiz == [ids |-> MaxIdsQuiz, msgs |-> MaxMsgsQuiz, names |-> Names]

Labels == {""} \cup {n \o " - " \o c : n \in NamesTwo \ {""}, c \in Conditions \ {""}}

Step(s, w, remote, lim) ==
  \/ \E click \in Clicks(s) : Click(s, click)
  \/ \E name \in lim.names, condition \in Conditions : AddPatient(s, name, condition, w, lim)
  \/ \E label \in Labels, resp \in remote : GenerateMaterial(s, label, resp, w, lim)
  \/ \E label \in Labels : ViewChat(s, label)
  \/ \E label \in Labels, q \in Questions, resp \in remote : Send(s, label, q, resp, w, lim)
  \/ \E label \in Labels : ClearChat(s, label, w)
  \/ Delete(s, w)
  \/ \E label \in Labels : StRerun(s, label)
  \/ NewSession(s)

\* one session, every write completes
Next == Step("A", WriteOk, RemoteOutcomes, Lim)
Spec == Init /\ [][Next]_vars

\* two sessions share the document, every write and every remote call completes:
\* session A uses every page, session B is a second tab that adds patients and
\* deletes materials
SecondTab(s, lim) ==
  \/ \E click \in {c \in Clicks(s) : c.btn \in {"Save Patient Information", "Delete"}} : Click(s, click)
  \/ \E name \in Names \ {""}, condition \in Conditions \ {""} : AddPatient(s, name, condition, WriteOk, lim)
  \/ Delete(s, WriteOk)
  \/ StRerun(s, "")

NextMulti == Step("A", WriteOk, GeneratedTexts, LimMulti) \/ SecondTab("B", LimMulti)
SpecMulti == Init /\ [][NextMulti]_vars

\* one session whose patients carry two different names, every write completes
NextTwo == Step("A", WriteOk, RemoteOutcomes, LimTwo)
SpecTwo == Init /\ [][NextTwo]_vars

\* one session, a write may fail part-way
NextFault == \E w \in {WriteOk} \cup WriteFaults : Step("A", w, RemoteOutcomes, Lim)
SpecFault == Init /\ [][NextFault]_vars

\* the scorer alone: every quiz of up to MaxQuestions questions with every
\* answers mapping (a key may be absent, an answer may be no option at all)
Question(n, correct) ==
  [text |-> "Q" \o ToString(n), options |-> <<"A", "B", "C", "D">>, correct_answer |-> correct,
   explanation |-> "E" \o ToString(n), category |-> "basics"]
Quizzes ==
  {[questions |-> [i \in 1..Len(c) |-> Question(i, c[i])]] :
     c \in UNION {[1..n -> {"A", "B"}] : n \in 0..MaxQuestions}}
AnswerMaps ==
  UNION {[keys -> {"A", "B"}] : keys \in SUBSET {question_key(i) : i \in 0..MaxQuestions}}

\* the responses of the model to the quiz prompt: a quiz as plain JSON, a quiz
\* whose question holds the word json, a quiz inside a code fence, prose, and
\* a JSON object that holds no questions
QuizA == [questions |-> <<Question(1, "A")>>]
QuizB == [questions |-> <<[Question(1, "B") EXCEPT !.text = "Is json a format?"]>>]
dumpQuestion(q) ==
  dumpDict(<<"text", "options", "correct_answer", "explanation", "category">>,
           << <<S(q.text)>>, dumpList([i \in 1..Len(q.options) |-> <<S(q.options[i])>>]),
              <<S(q.correct_answer)>>, <<S(q.explanation)>>, <<S(q.category)>> >>)
QuizText(quiz) ==
  dumpDict(<<"questions">>,
           << dumpList([i \in 1..Len(quiz.questions) |-> dumpQuestion(quiz.questions[i])]) >>)
Fenced(text) == <<Fence, W("json"), W("\n")>> \o text \o <<W("\n"), Fence>>
Prose == <<W("No"), W(" "), W("json"), W("\n")>>
NoQuiz == <<P("{"), P("}")>>
AssessmentTexts == {QuizText(QuizA), QuizText(QuizB), Fenced(QuizText(QuizA)), Prose, NoQuiz}
AssessmentOutcomes == {Response(text) : text \in AssessmentTexts} \cup {Raised}

QuizStep(s, w, outcomes, lim) ==
  \/ \E click \in QuizClicks(s) : Click(s, click)
  \/ \E label \in Labels : ViewAssessment(s, label)
  \/ \E label \in Labels, resp \in outcomes : GenerateAssessment(s, label, resp, w)
  \/ \E label \in Labels : SubmitAssessment(s, label, w)

\* one session that also uses the Knowledge Assessment page, every write completes
NextQuiz ==
  \/ Step("A", WriteOk, GeneratedTexts, LimQuiz)
  \/ QuizStep("A", WriteOk, AssessmentOutcomes, LimQuiz)
SpecQuiz == Init /\ [][NextQuiz]_vars

InitScorer ==
  /\ file = EmptyFile
  /\ patient_records = [s \in Sessions |-> <<>>]
  /\ generated_materials = [s \in Sessions |-> <<>>]
  /\ chat_history = [s \in Sessions |-> <<>>]
  /\ \E quiz \in Quizzes, answers \in AnswerMaps :
       patient_assessments =
         [s \in Sessions |-> IF s = "A" THEN uid(1) :> AssessmentEntry(quiz, answers, None)
                                        ELSE <<>>]
  /\ pc = [s \in Sessions |-> Idle]
  /\ out = Rendered("", "")
  /\ issued = 1

NextScorer == Score("A")
SpecScorer == InitScorer /\ [][NextScorer]_vars

----------------------------------------------------------------------------
(* Properties *)

Collections(s) == <<patient_records[s], generated_materials[s], chat_history[s]>>
CollectionsNext(s) == <<patient_records'[s], generated_materials'[s], chat_history'[s]>>
Reloaded(f) == load_data(f, <<>>, <<>>, <<>>)
Malformed(f) == f.exists /\ ~json_load(f.text).ok
IsPrefix(a, b) == Len(a) <= Len(b) /\ SubSeq(b, 1, Len(a)) = a
ScriptTop(s) ==
  \/ NewSession(s)
  \/ \E label \in Labels : StRerun(s, label)
  \/ \E click \in Clicks(s) : Click(s, click)
NoCollections == <<(<<>>), (<<>>), (<<>>)>>
PatientIds(patients) == {patients[i].id : i \in 1..Len(patients)}

\* C1: in every store state a session reaches, writing the collections with
\* save_data and reading the document back with load_data gives the same
\* patients, materials (same order) and chat histories (same messages, same order).
C1_SaveLoadRoundTrip ==
  \A s \in Sessions :
    LET r == Reloaded(save_data(patient_records[s], generated_materials[s], chat_history[s], WriteOk))
    IN /\ ~r.raised
       /\ r.patients = patient_records[s]
       /\ r.materials = generated_materials[s]
       /\ r.chat = chat_history[s]

C1_Witness ==
  /\ Len(patient_records["A"]) >= 2
  /\ generated_materials["A"] # <<>>
  /\ \E p \in DOMAIN chat_history["A"] : Len(chat_history["A"][p]) >= 2
  /\ Reloaded(file).patients = patient_records["A"]
  /\ Reloaded(file).materials = generated_materials["A"]
  /\ Reloaded(file).chat = chat_history["A"]

\* C2: a submit of the Add Patient form with an empty name or an empty condition
\* renders the validation error and changes neither the patients, the chat
\* histories, the materials nor the document.
C2_EmptyIntakeRejected ==
  [][\A s \in Sessions, name \in Names, condition \in Conditions :
       (AddPatient(s, name, condition, WriteOk, Lim) /\ (name = "" \/ condition = ""))
       => /\ out'.error /\ ~out'.success /\ out'.exception = ""
          /\ UNCHANGED <<file, patient_records, generated_materials, chat_history, issued>>]_vars

C2_Witness ==
  /\ out.session = "A" /\ out.op = "Add Patient" /\ out.error
  /\ patient_records["A"] # <<>>
  /\ file.exists

\* C3: a handler whose remote generation call fails (material generation, chat
\* reply) leaves the in-memory patients, materials and chat histories and the
\* persisted document as they were before the handler.
C3_NoStateOnGenerationFailure ==
  [][\A s \in Sessions, label \in Labels, q \in Questions \ {""} :
       (Send(s, label, q, RemoteFail, WriteOk, Lim) \/ GenerateMaterial(s, label, RemoteFail, WriteOk, Lim))
       => UNCHANGED <<file, patient_records, generated_materials, chat_history>>]_vars

\* C4: a script run that finds a malformed document ends without an exception
\* and with the three collections empty.
C4_MalformedFallsBackToEmpty ==
  [][\A s \in Sessions :
       (ScriptTop(s) /\ Malformed(file))
       => (out'.exception = "" /\ CollectionsNext(s) = NoCollections)]_vars

\* C5: load_data on a malformed document raises (JSONDecodeError): the script
\* run ends there, no handler runs, nothing is reported as done and the
\* collections of the session are not replaced.
C5_MalformedLoadRaises ==
  [][\A s \in Sessions :
       (ScriptTop(s) /\ Malformed(file))
       => /\ out'.op = "load_data" /\ out'.exception = "JSONDecodeError" /\ ~out'.success
          /\ pc'[s] = Idle
          /\ CollectionsNext(s) = Collections(s) \/ NewSession(s)
          /\ UNCHANGED file]_vars

C5_Witness ==
  /\ Malformed(file)
  /\ out.op = "load_data" /\ out.exception = "JSONDecodeError"

\* C6: a script run that finds no document raises nothing and leaves the
\* session with no patients, no materials and an empty chat-history mapping.
C6_MissingDocumentLoadsEmpty ==
  [][\A s \in Sessions :
       (ScriptTop(s) /\ ~file.exists)
       => (out'.exception = "" /\ CollectionsNext(s) = NoCollections /\ UNCHANGED file)]_vars

C6_Witness ==
  /\ ~file.exists
  /\ out.session = "A" /\ out.op = "load_data" /\ out.exception = ""
  /\ pc["A"].btn = "Save Patient Information"

\* C7: every step that changes the document leaves it equal to the collections
\* of the session that saved, whatever the document held before: no merge.
C7_SaveOverwritesWholeDocument ==
  [][file' # file
     => LET r == Reloaded(file')
        IN /\ ~r.raised
           /\ <<r.patients, r.materials, r.chat>> = CollectionsNext(out'.session)]_vars

\* session B's patient, saved by B, is no longer in the document after A saved
C7_Witness ==
  /\ out.session = "A" /\ out.success
  /\ pc["B"] = Idle
  /\ \E i \in 1..Len(patient_records["B"]) :
       patient_records["B"][i].id \notin PatientIds(Reloaded(file).patients)

\* C8: except for Clear Chat History, every step keeps each chat history as a
\* prefix of the new one; Send appends the user message and then the assistant
\* message at the end of the selected patient's history, and the document
\* reads back exactly that history.
C8_ChatAppendOnly ==
  [][\A s \in Sessions :
       /\ \A p \in DOMAIN chat_history[s] :
            out'.op # "Clear Chat History"
            => (p \in DOMAIN chat_history'[s] /\ IsPrefix(chat_history[s][p], chat_history'[s][p]))
       /\ \A label \in Labels \ {""}, q \in Questions \ {""}, resp \in RemoteOutcomes :
            Send(s, label, q, resp, WriteOk, Lim)
            => LET p == selected_patient(patient_records[s], label).id
                   old == IF p \in DOMAIN chat_history[s] THEN chat_history[s][p] ELSE <<>>
                   new == old \o <<Message("user", q), Message("assistant", chat_with_patient(resp))>>
               IN /\ chat_history'[s][p] = new
                  /\ Reloaded(file').chat[p] = new]_vars

C8_Witness ==
  /\ out.session = "A" /\ out.op = "Send"
  /\ \E p \in DOMAIN chat_history["A"] :
       /\ Len(chat_history["A"][p]) = 4
       /\ [i \in 1..4 |-> chat_history["A"][p][i].role] = <<"user", "assistant", "user", "assistant">>

C9_RemovedInOrder ==
  /\ out.op = "Delete" /\ out.success
  /\ \E s \in Sessions : out.session = s /\ generated_materials[s] # <<>>

\* C10: the ids of the profiles of a patient collection are non-empty, were
\* drawn by uuid4() and are pairwise distinct, in memory and in the document.
C10_PatientIdsDistinct ==
  \A patients \in {patient_records[s] : s \in Sessions}
                  \cup (IF file.exists /\ ~Malformed(file) THEN {Reloaded(file).patients} ELSE {}) :
    \A i, j \in 1..Len(patients) :
      /\ patients[i].id # ""
      /\ patients[i].id \in {uid(n) : n \in 1..issued}
      /\ i # j => patients[i].id # patients[j].id

C10_Witness ==
  /\ out.op = "Add Patient" /\ out.success
  /\ \E s \in Sessions : Len(patient_records[s]) >= 2
  /\ file.exists /\ Len(Reloaded(file).patients) >= 2

\* C11: a submit of the Add Patient form with a name and a condition appends
\* exactly one profile at the end of the patients (the profiles already there
\* keep their content and their order), with a new id and the submitted name
\* and condition; the chat histories gain an empty history under the new id
\* and keep every other history; the materials are unchanged.
C11_CreatePatientAppends ==
  [][\A s \in Sessions, name \in Names, condition \in Conditions :
       (AddPatient(s, name, condition, WriteOk, Lim) /\ name # "" /\ condition # "")
       => LET old == patient_records[s]
              new == patient_records'[s]
              added == new[Len(new)]
          IN /\ Len(new) = Len(old) + 1
             /\ SubSeq(new, 1, Len(old)) = old
             /\ added.id \notin PatientIds(old)
             /\ added.name = name /\ added.condition = condition
             /\ DOMAIN chat_history'[s] = DOMAIN chat_history[s] \cup {added.id}
             /\ chat_history'[s][added.id] = <<>>
             /\ \A p \in DOMAIN chat_history[s] \ {added.id} :
                  chat_history'[s][p] = chat_history[s][p]
             /\ generated_materials'[s] = generated_materials[s]]_vars

\* a second profile was added while the first one had messages and a material
C11_Witness ==
  /\ out.session = "A" /\ out.op = "Add Patient" /\ out.success
  /\ Len(patient_records["A"]) = 2
  /\ generated_materials["A"] # <<>>
  /\ chat_history["A"][patient_records["A"][2].id] = <<>>
  /\ Len(chat_history["A"][patient_records["A"][1].id]) >= 2

\* the entries the scorer has filled in: session, stored entry, result
Scored ==
  {<<s, p>> \in Sessions \X {uid(n) : n \in 1..(MaxIds + MaxIdsMulti)} :
     p \in DOMAIN patient_assessments[s] /\ patient_assessments[s][p].results # None}

\* C12: for every quiz and every answers mapping, the result of the scorer has
\* total = number of questions and incorrect = total - correct, and its
\* feedback has one entry per question, in question order: entry i holds the
\* text of question i, the answer stored for question i (None when there is
\* none), the correct answer of question i, and a feedback text that ends
\* with the explanation of question i.
C12_ScorerResult ==
  \A sp \in Scored :
    LET e == patient_assessments[sp[1]][sp[2]]
        r == e.results
        qs == e.assessment.questions
    IN /\ r.total_questions = Len(qs)
       /\ r.incorrect_answers = r.total_questions - r.correct_answers
       /\ Len(r.feedback) = Len(qs)
       /\ \A i \in 1..Len(qs) :
            LET key == "question_" \o ToString(i - 1)
                fb == r.feedback[i]
            IN /\ fb.question = qs[i].text
               /\ IF key \in DOMAIN e.user_responses
                  THEN fb.user_answer = e.user_responses[key]
                  ELSE fb.user_answer = None
               /\ fb.correct_answer = qs[i].correct_answer
               /\ fb.feedback \in {CorrectMark \o qs[i].explanation,
                                   IncorrectMark \o qs[i].correct_answer \o ". " \o qs[i].explanation}

\* two questions, the first answered correctly, the second not answered
C12_Witness ==
  \E sp \in Scored :
    LET e == patient_assessments[sp[1]][sp[2]]
    IN /\ Len(e.assessment.questions) = 2
       /\ DOMAIN e.user_responses = {"question_0"}
       /\ e.results.correct_answers = 1
       /\ e.results.feedback[2].user_answer = None

\* C13: when the answer stored for every question equals its correct_answer,
\* correct = total and incorrect = 0; when the answers mapping is empty,
\* correct = 0; a question without an answer gets the "Incorrect" feedback and
\* is counted as incorrect; one question with correct_answer "B" and the
\* answer "B" for question 0 gives total 1, correct 1, incorrect 0 and the
\* "Correct" feedback.
C13_ScoringExtremes ==
  \A sp \in Scored :
    LET e == patient_assessments[sp[1]][sp[2]]
        r == e.results
        qs == e.assessment.questions
        u == e.user_responses
        key(i) == "question_" \o ToString(i - 1)
        missing == {i \in 1..Len(qs) : key(i) \notin DOMAIN u}
    IN /\ (\A i \in 1..Len(qs) : key(i) \in DOMAIN u /\ u[key(i)] = qs[i].correct_answer)
            => (r.correct_answers = r.total_questions /\ r.incorrect_answers = 0)
       /\ DOMAIN u = {} => r.correct_answers = 0
       /\ r.incorrect_answers >= Cardinality(missing)
       /\ \A i \in missing :
            r.feedback[i].feedback = IncorrectMark \o qs[i].correct_answer \o ". " \o qs[i].explanation
       /\ (Len(qs) = 1 /\ qs[1].correct_answer = "B" /\ u = ("question_0" :> "B"))
            => /\ r.total_questions = 1 /\ r.correct_answers = 1 /\ r.incorrect_answers = 0
               /\ r.feedback[1].feedback = CorrectMark \o qs[1].explanation

\* the example: one question, correct_answer "B", the answer "B" for question 0
C13_Witness ==
  \E sp \in Scored :
    LET e == patient_assessments[sp[1]][sp[2]]
    IN /\ Len(e.assessment.questions) = 1
       /\ e.assessment.questions[1].correct_answer = "B"
       /\ e.user_responses = ("question_0" :> "B")
       /\ e.results.correct_answers = 1

\* two questions, both answered correctly
C13_AllCorrect ==
  \E sp \in Scored :
    LET e == patient_assessments[sp[1]][sp[2]]
    IN Len(e.assessment.questions) = 2 /\ e.results.correct_answers = 2

\* the responses that generate_knowledge_assessment turns into an assessment
Parsed(resp) == "error" \notin DOMAIN generate_knowledge_assessment(resp)

\* C14: the result stored for a patient becomes non-null only by Submit
\* Assessment; a Generate Knowledge Assessment that yields a quiz leaves, for
\* the selected patient, that quiz, an empty answers mapping and a null
\* result, whatever was stored for the patient before.
C14_RegenerationResets ==
  /\ [][\A s \in Sessions : \A p \in DOMAIN patient_assessments'[s] :
          (/\ patient_assessments'[s][p].results # None
           /\ p \in DOMAIN patient_assessments[s] => patient_assessments[s][p].results = None)
          => out'.op = "Submit Assessment"]_vars
  /\ [][\A s \in Sessions, label \in Labels \ {""}, resp \in AssessmentOutcomes :
          (GenerateAssessment(s, label, resp, WriteOk) /\ Parsed(resp))
          => LET e == patient_assessments'[s][selected_patient(patient_records[s], label).id]
             IN /\ e.assessment = generate_knowledge_assessment(resp)
                /\ DOMAIN e.user_responses = {}
                /\ e.results = None]_vars

\* C15: when the response is a quiz as valid JSON inside a code fence, the
\* cleaning of line 81 leaves exactly the enclosed JSON text, and
\* generate_knowledge_assessment returns, and the page stores, the object
\* that text parses to.
C15_FencedResponseParsed ==
  [][\A s \in Sessions, label \in Labels \ {""} :
       LET payload == QuizText(QuizA)
           resp == Response(Fenced(payload))
       IN GenerateAssessment(s, label, resp, WriteOk)
          => /\ clean_response(resp.text) = payload
             /\ generate_knowledge_assessment(resp) = json_loads(payload).val
             /\ patient_assessments'[s][selected_patient(patient_records[s], label).id].assessment
                  = json_loads(payload).val]_vars

\* C16: when the response is no JSON, generate_knowledge_assessment returns
\* the parse error together with the response text as it was received, and
\* the page neither creates nor replaces an assessment entry.
C16_MalformedResponseKeepsText ==
  [][\A s \in Sessions, label \in Labels \ {""}, text \in AssessmentTexts :
       (GenerateAssessment(s, label, Response(text), WriteOk) /\ ~json_loads(text).ok)
       => LET assessment == generate_knowledge_assessment(Response(text))
          IN /\ "error" \in DOMAIN assessment
             /\ assessment.raw_response = text
             /\ DOMAIN patient_assessments'[s] = DOMAIN patient_assessments[s]
             /\ \A p \in DOMAIN patient_assessments[s] :
                  /\ patient_assessments'[s][p].assessment = patient_assessments[s][p].assessment
                  /\ patient_assessments'[s][p].results = patient_assessments[s][p].results]_vars

\* C17: the document, once written, is a JSON object with exactly the keys
\* patients, materials and chat_history; a new session (a restarted process)
\* starts with the patients, materials and chat histories of the document,
\* which are those the session held before, and with no assessment, no stored
\* answers and no result for any patient.
C17_AssessmentsNotPersisted ==
  /\ [](file.exists => (json_load(file.text).ok
                        /\ DOMAIN json_load(file.text).val = {"patients", "materials", "chat_history"}))
  /\ [][\A s \in Sessions :
          NewSession(s)
          => LET r == Reloaded(file)
             IN /\ out'.exception = ""
                /\ CollectionsNext(s) = <<r.patients, r.materials, r.chat>>
                /\ CollectionsNext(s) = Collections(s)
                /\ DOMAIN patient_assessments'[s] = {}]_vars

\* a new session that found a patient, a material and messages in the document
C17_Witness ==
  /\ out.session = "A" /\ out.op = "load_data" /\ out.exception = "" /\ pc["A"] = Idle
  /\ patient_records["A"] # <<>> /\ generated_materials["A"] # <<>>
  /\ \E p \in DOMAIN chat_history["A"] : chat_history["A"][p] # <<>>
  /\ DOMAIN patient_assessments["A"] = {}

\* Submit Assessment has saved while the session holds a quiz, answers and a result
C17_SavedWithoutAssessment ==
  /\ out.session = "A" /\ out.op = "Submit Assessment" /\ out.success
  /\ generated_materials["A"] # <<>>
  /\ \E p \in DOMAIN patient_assessments["A"] : patient_assessments["A"][p].results # None
  /\ DOMAIN json_load(file.text).val = {"patients", "materials", "chat_history"}

\* C18: Clear Chat History leaves the selected patient with an empty history,
\* keeps the history of every other patient message for message, and changes
\* neither the patients nor the materials.
C18_ClearChatFrame ==
  [][\A s \in Sessions, label \in Labels \ {""} :
       ClearChat(s, label, WriteOk)
       => LET patient_id == selected_patient(patient_records[s], label).id
          IN /\ chat_history'[s][patient_id] = <<>>
             /\ DOMAIN chat_history'[s] = DOMAIN chat_history[s] \cup {patient_id}
             /\ \A p \in DOMAIN chat_history[s] \ {patient_id} :
                  chat_history'[s][p] = chat_history[s][p]
             /\ patient_records'[s] = patient_records[s]
             /\ generated_materials'[s] = generated_materials[s]]_vars

\* one patient's history was cleared while another patient has messages
C18_Witness ==
  /\ out.session = "A" /\ out.op = "Clear Chat History" /\ out.success
  /\ generated_materials["A"] # <<>>
  /\ \E i, j \in 1..Len(patient_records["A"]) :
       /\ patient_records["A"][i].name # patient_records["A"][j].name
       /\ chat_history["A"][patient_records["A"][i].id] = <<>>
       /\ Len(chat_history["A"][patient_records["A"][j].id]) = 2
  /\ Reloaded(file).chat = chat_history["A"]

\* the document read back equals the three collections session s will hold
Flushed(s) ==
  LET r == Reloaded(file')
  IN ~r.raised /\ <<r.patients, r.materials, r.chat>> = CollectionsNext(s)

\* C19: when the handler that adds a patient, adds a material, removes a
\* material, appends chat messages or clears a chat history has run, the
\* patients, materials and chat histories of the document equal those of the
\* session; and no step at all changes a collection of the session and leaves
\* the document different from it.
C19_MutationsFlushed ==
  /\ [][\A s \in Sessions :
          (\/ \E name \in NamesTwo, condition \in Conditions :
                AddPatient(s, name, condition, WriteOk, LimTwo)
           \/ \E label \in Labels, resp \in RemoteOutcomes :
                GenerateMaterial(s, label, resp, WriteOk, LimTwo)
           \/ Delete(s, WriteOk)
           \/ \E label \in Labels, q \in Questions, resp \in RemoteOutcomes :
                Send(s, label, q, resp, WriteOk, LimTwo)
           \/ \E label \in Labels : ClearChat(s, label, WriteOk))
          => Flushed(s)]_vars
  /\ [][\A s \in Sessions : CollectionsNext(s) # Collections(s) => Flushed(s)]_vars

\* Send has returned: two patients, a material and the new messages are in
\* the document
C19_Witness ==
  /\ out.session = "A" /\ out.op = "Send"
  /\ Len(patient_records["A"]) = 2 /\ generated_materials["A"] # <<>>
  /\ \E p \in DOMAIN chat_history["A"] : Len(chat_history["A"][p]) = 2
  /\ Reloaded(file).patients = patient_records["A"]
  /\ Reloaded(file).materials = generated_materials["A"]
  /\ Reloaded(file).chat = chat_history["A"]

\* C20: the materials of a session grow only in a Generate Materials run whose
\* generation call succeeded; such a run appends exactly one material at the
\* end, with a new id, the id, name and condition of the selected patient and
\* the generated text as content, and leaves the materials already there, the
\* patients and the chat histories unchanged; a run whose generation call
\* fails leaves the materials unchanged.
C20_MaterialOnSuccessOnly ==
  /\ [][\A s \in Sessions :
          Len(generated_materials'[s]) > Len(generated_materials[s])
          => (out'.op = "Generate Materials" /\ out'.session = s /\ ~out'.error)]_vars
  /\ [][\A s \in Sessions, label \in Labels \ {""}, resp \in RemoteOutcomes :
          GenerateMaterial(s, label, resp, WriteOk, LimTwo)
          => LET old == generated_materials[s]
                 new == generated_materials'[s]
                 patient == selected_patient(patient_records[s], label)
             IN /\ patient_records'[s] = patient_records[s]
                /\ chat_history'[s] = chat_history[s]
                /\ IF resp = RemoteFail
                   THEN new = old
                   ELSE /\ Len(new) = Len(old) + 1
                        /\ SubSeq(new, 1, Len(old)) = old
                        /\ new[Len(new)].id \notin {old[i].id : i \in 1..Len(old)}
                        /\ new[Len(new)].patient_id = patient.id
                        /\ new[Len(new)].patient_name = patient.name
                        /\ new[Len(new)].condition = patient.condition
                        /\ new[Len(new)].content = resp]_vars

\* a material was generated for the second of two patients with different names
C20_Witness ==
  /\ out.session = "A" /\ out.op = "Generate Materials" /\ out.success /\ ~out.error
  /\ Len(patient_records["A"]) = 2
  /\ patient_records["A"][1].name # patient_records["A"][2].name
  /\ generated_materials["A"] # <<>>
  /\ LET m == generated_materials["A"][Len(generated_materials["A"])]
     IN /\ m.patient_id = patient_records["A"][2].id
        /\ m.patient_name = patient_records["A"][2].name

\* a chat history made of (user, assistant) pairs
Paired(history) ==
  /\ Len(history) % 2 = 0
  /\ \A i \in 1..Len(history) :
       history[i].role = (IF i % 2 = 1 THEN "user" ELSE "assistant")

\* C23: every chat history a session holds between two script runs, and every
\* chat history of a document that can be read, has even length and
\* alternates user, assistant, starting with user; this includes the
\* histories written after a reply generation that failed.
C23_ChatPairs ==
  /\ \A s \in Sessions : \A p \in DOMAIN chat_history[s] : Paired(chat_history[s][p])
  /\ (file.exists /\ ~Malformed(file))
       => \A p \in DOMAIN Reloaded(file).chat : Paired(Reloaded(file).chat[p])

\* the reply generation failed: the user message and the apology are stored
C23_Witness ==
  /\ out.op = "Send" /\ out.error /\ out.exception = ""
  /\ \E p \in DOMAIN chat_history["A"] :
       LET h == chat_history["A"][p]
       IN /\ Len(h) = 4
          /\ h[Len(h)].role = "assistant" /\ h[Len(h)].content = ChatApology
          /\ Reloaded(file).chat[p] = h

\* C24: in a single session, the patient_id of every material and every key of
\* the chat histories is the id of a profile of the patients, and every
\* profile has a chat history; the same holds for the document.
C24_ReferentialIntegrity ==
  LET Sound(patients, materials, chat) ==
        /\ \A i \in 1..Len(materials) : materials[i].patient_id \in PatientIds(patients)
        /\ DOMAIN chat = PatientIds(patients)
  IN /\ Sound(patient_records["A"], generated_materials["A"], chat_history["A"])
     /\ (file.exists /\ ~Malformed(file))
          => Sound(Reloaded(file).patients, Reloaded(file).materials, Reloaded(file).chat)

\* two patients, a material of the second one, and a history of each
C24_Witness ==
  /\ Len(patient_records["A"]) = 2
  /\ \E i \in 1..Len(generated_materials["A"]) :
       generated_materials["A"][i].patient_id = patient_records["A"][2].id
  /\ DOMAIN chat_history["A"] = {patient_records["A"][1].id, patient_records["A"][2].id}
  /\ file.exists /\ Reloaded(file).materials = generated_materials["A"]

\* C25: every profile of the patients can be reached by the selection of the
\* pages: for each profile some label of the selectbox resolves to the profile
\* with that id, also when two profiles have the same name and condition.
C25_EveryProfileSelectable ==
  \A s \in Sessions : \A i \in 1..Len(patient_records[s]) :
    \E label \in Range(patient_names(patient_records[s])) :
      selected_patient(patient_records[s], label).id = patient_records[s][i].id

\* C26: a save that fails part-way leaves the last completely written
\* document in place: every step leaves the document as it was or leaves a
\* completely written document, so no load reads a truncated text.
C26_FailedSaveKeepsDocument ==
  [][file' = file \/ ~Malformed(file')]_vars

\* the shape the prompt of lines 59-69 asks for
IsQuiz(assessment) ==
  /\ "questions" \in DOMAIN assessment
  /\ \A i \in 1..Len(assessment.questions) :
       LET question == assessment.questions[i]
       IN /\ DOMAIN question = {"text", "options", "correct_answer", "explanation", "category"}
          /\ Len(question.options) = 4

\* C22: every assessment stored for a patient is a quiz: a sequence of
\* questions, each with a text, exactly 4 options, a correct option, an
\* explanation and a category; a response of another shape is never stored.
C22_StoredAssessmentIsQuiz ==
  \A s \in Sessions : \A p \in DOMAIN patient_assessments[s] :
    IsQuiz(patient_assessments[s][p].assessment)

\* C21: in a single session a profile, once created, stays where it is with
\* every field as it was created: each step keeps the patients of the session
\* as a prefix of the patients after it, and likewise the patients of the
\* document, and the document, once written, holds the patients of the session.
C21_ProfilesKept ==
  /\ [](file.exists => (~Malformed(file) /\ Reloaded(file).patients = patient_records["A"]))
  /\ [][/\ IsPrefix(patient_records["A"], patient_records'["A"])
        /\ file.exists
             => (file'.exists /\ IsPrefix(Reloaded(file).patients, Reloaded(file').patients))]_vars

\* two profiles after a chat with the first one and a scored quiz
C21_Witness ==
  /\ out.session = "A" /\ out.op = "Submit Assessment" /\ out.success
  /\ Len(patient_records["A"]) = 2
  /\ chat_history["A"][patient_records["A"][1].id] # <<>>
  /\ \E p \in DOMAIN patient_assessments["A"] : patient_assessments["A"][p].results # None
  /\ Reloaded(file).patients = patient_records["A"]

====
